---------------------------- MODULE Spec2Model ----------------------------
(***************************************************************************)
(* Task lifecycle and streaming-update engine of a2a-js: the               *)
(* StreamingResponseQueue, the InMemoryTaskStore, the request handler      *)
(* (DefaultA2ARequestHandler) and the SSE loop of A2AApplication.          *)
(***************************************************************************)
EXTENDS Integers, Sequences, FiniteSets, TLC

(***************************************************************************)
(* Bounds of the model.                                                    *)
(***************************************************************************)
MaxPush == 3
MaxCalls == 3
NumItems == 2
MaxSaves == 3
MaxOps == 2
MaxEvents == 2
MaxFrames == 3
MaxArrivals == 2

Items == 1..NumItems
TaskIds == {"t1", "t2"}
ReqIds == {"r1", "r2"}

\* A field an object does not have (JavaScript undefined).
Absent == "absent"

\* What a promise returned by next() holds: nothing yet, null, or an item.
Pending == [st |-> "pending", v |-> 0]
Null == [st |-> "null", v |-> 0]
Item(x) == [st |-> "item", v |-> x]

VARIABLES
  \* ---- StreamingResponseQueue (streaming_response_queue.ts)
  queue,        \* private queue: T[]
  waitResolve,  \* private waitResolve: index in calls of the promise it resolves, 0 = null
  closed,       \* private closed
  calls,        \* what the promises returned by next() hold, in call order
  pushLog,      \* what the producer saw: the pushed items and push's return values
  itpc,         \* the for-await loop over the queue: idle, loop, awaiting, done
  yielded,      \* the items the for-await loop has yielded
  lastOp,       \* what the last operation on the queue did
  \* ---- InMemoryTaskStore (task_store.ts)
  tasks,        \* private tasks: Map<string, Task>, its entries in insertion order
  saves,        \* the arguments of the save calls of the store's own client
  got,          \* the value returned by the last get of the store's own client
  \* ---- DefaultA2ARequestHandler, non-streaming operations (request_handler.ts)
  opc,          \* the operation awaiting the executor: idle, send, cancel
  oreq,         \* its request
  nops,         \* the number of non-streaming requests received
  recv,         \* the last request received: the operation and its request
  posted,       \* the method and the jsonrpc member of the last POST body routed
  before,       \* the store as the last message/send received found it
  resp,         \* the last response returned: the operation, its request, the body
  quiet,        \* nothing has written to the store since resp was returned
  \* ---- a streaming cycle (request_handler.ts, app.ts)
  spc,          \* idle, pull, saving, yield, yield-last, end, done, failed
  skind,        \* send (message/sendStream) or resub (tasks/resubscribe)
  sreq,         \* the request that opened the stream
  sexec,        \* the executor's stream: none, running, returned, threw
  scur,         \* the response the handler is dealing with
  taken,        \* the responses taken from the executor's stream
  handlerOut,   \* the responses the handler has yielded to the SSE loop
  frames,       \* the frames written to the HTTP response
  resEnded,     \* res.writableEnded
  httpBody,     \* the JSON body sent by handleError, if any
  inflight,     \* the snapshots whose save has been called and not yet resolved
  cycSaved,     \* the snapshots whose save has resolved, in that order
  socket,       \* the connection of the stream: closed by the client or not, and
                \* the frames written, the events pulled and the store when it was
  \* ---- A2AClient, the decoder of an SSE response (client)
  cmethod,      \* sendTaskSubscribe, resubscribeTask or sendMessageStreaming
  sent,         \* the frames the response body is made of
  wire,         \* the characters of the body not read yet
  buffer,       \* let buffer
  delivered,    \* the values yielded to the caller, or passed to onChunk
  dpc,          \* reading, done (the body ended), returned (on event: end)
  cutInDelimiter, \* a chunk has ended between the two newlines of a delimiter
  \* ---- a streamed scenario (tests/scenarios)
  acfg,         \* the configuration of ScenariosTestAgent and the message sent
  apc,          \* idle, streaming, done
  streamingChunks,     \* the events the caller of the stream has collected
  fullArtifactContent, \* the text the caller assembles from the artifact events
  taskStore,    \* ScenariosAgentExecutor.taskStore, the tasks of its sendTask calls
  replies       \* the outcomes of the sendTask calls of a scenario, in order

qvars == <<queue, waitResolve, closed, calls, pushLog, itpc, yielded, lastOp>>
svars == <<saves, got>>
ovars == <<opc, oreq, nops, recv, posted, before, resp, quiet>>
dvars == <<cmethod, sent, wire, buffer, delivered, dpc, cutInDelimiter>>
avars == <<acfg, apc, streamingChunks, fullArtifactContent, taskStore, replies>>
cvars == <<spc, skind, sreq, sexec, scur, taken, handlerOut, frames, resEnded,
           httpBody, inflight, cycSaved, socket>>
\* What the queue's, the store client's and the handler's actions leave alone.
notQueue == <<tasks, saves, got, ovars, dvars, avars, spc, skind, sreq,
              sexec, scur, taken, handlerOut, frames, resEnded, httpBody,
              inflight, cycSaved, socket>>
notStore == <<qvars, ovars, cvars, dvars, avars>>
vars == <<queue, waitResolve, closed, calls, pushLog, itpc, yielded, lastOp,
          tasks, saves, got, opc, oreq, nops, recv, posted, before, resp, quiet,
          spc, skind, sreq, sexec, scur, taken, handlerOut, frames, resEnded,
          httpBody, inflight, cycSaved, socket,
          cmethod, sent, wire, buffer, delivered, dpc, cutInDelimiter,
          acfg, apc, streamingChunks, fullArtifactContent, taskStore, replies>>

(***************************************************************************)
(* Protocol objects                                                        *)
(***************************************************************************)

\* The payload of a response: a Task, a status or artifact update event or a
\* Message.  id and taskId are Absent when the object has no such field.
Payload(kind, id, taskId, state, final, messages) ==
  [kind |-> kind, id |-> id, taskId |-> taskId, state |-> state,
   final |-> final, messages |-> messages]

NoPayload == Payload("none", Absent, Absent, "none", FALSE, <<>>)

\* What a Map returns for a key it does not hold.
Undefined == Payload("undefined", Absent, Absent, "none", FALSE, <<>>)

(***************************************************************************)
(* InMemoryTaskStore                                                       *)
(***************************************************************************)

\* Map.prototype.has / get / set on the entries of this.tasks.
MapHas(m, k) == \E i \in 1..Len(m) : m[i].k = k
MapGet(m, k) ==
  IF MapHas(m, k) THEN m[CHOOSE i \in 1..Len(m) : m[i].k = k].v ELSE Undefined

\* A Map.set that adds an entry without looking for the key.
MapSet_Appending(m, k, v) == Append(m, [k |-> k, v |-> v])

MapSet(m, k, v) ==
  IF MapHas(m, k)
    THEN [i \in 1..Len(m) |-> IF m[i].k = k THEN [k |-> k, v |-> v] ELSE m[i]]
    ELSE Append(m, [k |-> k, v |-> v])

\* get(id) and save(task): the store is keyed by the task's id field.
get(id) == MapGet(tasks, id)
\* A save that leaves the entry of a task the store already holds as it is.
saved_KeepingStored(m, task) ==
  IF MapHas(m, task.id) THEN m ELSE MapSet(m, task.id, task)

saved(m, task) == MapSet(m, task.id, task)
save(task) == tasks' = saved(tasks, task)


(***************************************************************************)
(* StreamingResponseQueue                                                  *)
(***************************************************************************)

\* push without its test of closed.
push_IgnoringClosed(item) ==
  /\ pushLog' = Append(pushLog, [item |-> item, ret |-> TRUE])
  /\ IF waitResolve # 0
       THEN /\ calls' = [calls EXCEPT ![waitResolve] = Item(item)]
            /\ waitResolve' = 0
            /\ UNCHANGED queue
       ELSE /\ queue' = Append(queue, item)
            /\ UNCHANGED <<waitResolve, calls>>

\* push that buffers the item even when a consumer is suspended.
push_AlwaysBuffering(item) ==
  IF closed
    THEN /\ pushLog' = Append(pushLog, [item |-> item, ret |-> FALSE])
         /\ UNCHANGED <<queue, waitResolve, calls>>
    ELSE /\ pushLog' = Append(pushLog, [item |-> item, ret |-> TRUE])
         /\ queue' = Append(queue, item)
         /\ UNCHANGED <<waitResolve, calls>>

\* push(item): refused once closed; handed to the suspended consumer if there
\* is one; buffered otherwise.  The return value is recorded in pushLog.
push(item) ==
  IF closed
    THEN /\ pushLog' = Append(pushLog, [item |-> item, ret |-> FALSE])
         /\ UNCHANGED <<queue, waitResolve, calls>>
    ELSE /\ pushLog' = Append(pushLog, [item |-> item, ret |-> TRUE])
         /\ IF waitResolve # 0
              THEN /\ calls' = [calls EXCEPT ![waitResolve] = Item(item)]
                   /\ waitResolve' = 0
                   /\ UNCHANGED queue
              ELSE /\ queue' = Append(queue, item)
                   /\ UNCHANGED <<waitResolve, calls>>

\* A next() that returns the head of the buffer and leaves it there.
next_NotShifting ==
  IF closed
    THEN /\ calls' = Append(calls, Null)
         /\ UNCHANGED <<queue, waitResolve>>
    ELSE IF Len(queue) > 0
      THEN /\ calls' = Append(calls, Item(Head(queue)))
           /\ UNCHANGED <<queue, waitResolve>>
      ELSE /\ calls' = Append(calls, Pending)
           /\ waitResolve' = Len(calls) + 1
           /\ UNCHANGED queue

\* next(): null when closed; the head of the buffer when there is one;
\* otherwise a pending promise whose resolver is kept in waitResolve.
next ==
  IF closed
    THEN /\ calls' = Append(calls, Null)
         /\ UNCHANGED <<queue, waitResolve>>
    ELSE IF Len(queue) > 0
      THEN /\ calls' = Append(calls, Item(Head(queue)))
           /\ queue' = Tail(queue)
           /\ UNCHANGED waitResolve
      ELSE /\ calls' = Append(calls, Pending)
           /\ waitResolve' = Len(calls) + 1
           /\ UNCHANGED queue

\* close that forgets the suspended consumer.
close_NotWaking ==
  /\ closed' = TRUE
  /\ UNCHANGED <<calls, waitResolve, queue>>

\* close(): marks the queue closed and resolves the suspended consumer with null.
close ==
  /\ closed' = TRUE
  /\ IF waitResolve # 0
       THEN /\ calls' = [calls EXCEPT ![waitResolve] = Null]
            /\ waitResolve' = 0
       ELSE UNCHANGED <<calls, waitResolve>>
  /\ UNCHANGED queue

\* The loop condition of [Symbol.asyncIterator].
iterCond == ~closed \/ Len(queue) > 0

\* The consumer is suspended: its last next() has not been resolved.
Suspended == Len(calls) > 0 /\ calls[Len(calls)] = Pending

Push ==
  /\ Len(pushLog) < MaxPush
  /\ \E item \in Items : push(item)
  /\ lastOp' = IF closed THEN "push-refused"
                ELSE IF waitResolve # 0 THEN "push-wake" ELSE "push-buffer"
  /\ UNCHANGED <<closed, itpc, yielded>>
  /\ UNCHANGED notQueue

Close ==
  /\ close
  /\ lastOp' = IF waitResolve # 0 THEN "close-wake" ELSE "close"
  /\ UNCHANGED <<pushLog, itpc, yielded>>
  /\ UNCHANGED notQueue

\* The single consumer calls next() itself, one call at a time.
NextCall ==
  /\ itpc = "idle"
  /\ Len(calls) < MaxCalls
  /\ ~Suspended
  /\ next
  /\ lastOp' = "next"
  /\ UNCHANGED <<closed, pushLog, itpc, yielded>>
  /\ UNCHANGED notQueue

\* next() is called while the promise of an earlier next() is still pending:
\* the resolver kept in waitResolve is replaced by the new one.
NextWhileSuspended ==
  /\ itpc = "idle"
  /\ Len(calls) < MaxCalls
  /\ Suspended
  /\ next
  /\ lastOp' = "next-overlap"
  /\ UNCHANGED <<closed, pushLog, itpc, yielded>>
  /\ UNCHANGED notQueue

\* The single consumer enters a for-await loop over the queue.
IterStart ==
  /\ itpc = "idle"
  /\ ~Suspended
  /\ itpc' = "loop"
  /\ UNCHANGED <<queue, waitResolve, closed, calls, pushLog, yielded, lastOp>>
  /\ UNCHANGED notQueue

\* One evaluation of the loop condition, and the call of next() it guards.
IterCall ==
  /\ itpc = "loop"
  /\ IF iterCond
       THEN /\ next
            /\ itpc' = "awaiting"
            /\ lastOp' = "next"
       ELSE /\ itpc' = "done"
            /\ UNCHANGED <<queue, waitResolve, calls, lastOp>>
  /\ UNCHANGED <<closed, pushLog, yielded>>
  /\ UNCHANGED notQueue

\* The awaited next() has been resolved: break on null, yield the item otherwise.
IterResume ==
  /\ itpc = "awaiting"
  /\ calls[Len(calls)] # Pending
  /\ IF calls[Len(calls)] = Null
       THEN /\ itpc' = "done"
            /\ UNCHANGED yielded
       ELSE /\ itpc' = "loop"
            /\ yielded' = Append(yielded, calls[Len(calls)].v)
  /\ UNCHANGED <<queue, waitResolve, closed, calls, pushLog, lastOp>>
  /\ UNCHANGED notQueue

(***************************************************************************)
(* A client of the store                                                   *)
(***************************************************************************)

\* The Task values the store's own client saves.
StoreTasks ==
  {Payload("task", i, i, st, FALSE, <<>>) :
     i \in TaskIds, st \in {"working", "completed"}}

StoreSave ==
  /\ Len(saves) < MaxSaves
  /\ \E t \in StoreTasks :
       /\ save(t)
       /\ saves' = Append(saves, t)
  /\ UNCHANGED <<got, notStore>>

StoreGet ==
  /\ \E id \in TaskIds : got' = [id |-> id, v |-> get(id), at |-> Len(saves)]
  /\ UNCHANGED <<tasks, saves, notStore>>

(***************************************************************************)
(* JSON-RPC envelopes and errors                                           *)
(***************************************************************************)
TaskNotFoundCode == -32000
TaskNotCancelableCode == -32002
InternalErrorCode == -32603
UnsupportedOperationCode == -32001
MethodNotFoundCode == -32601

NoError == [type |-> "none", code |-> 0]
TaskNotFoundError == [type |-> "TaskNotFoundError", code |-> TaskNotFoundCode]
InternalError == [type |-> "InternalError", code |-> InternalErrorCode]
UnsupportedOperationError ==
  [type |-> "UnsupportedOperationError", code |-> UnsupportedOperationCode]
\* The error object of the default case of the switch of app.ts.
MethodNotFound == [type |-> "MethodNotFound", code |-> MethodNotFoundCode]
TaskNotCancelableError ==
  [type |-> "TaskNotCancelableError", code |-> TaskNotCancelableCode]
\* Another error of the executor's own (InvalidTaskStateError,
\* OperationNotSupportedError...).
ExecutorError == [type |-> "ExecutorError", code |-> 0]

\* {jsonrpc: "2.0", id, result} or {jsonrpc: "2.0", id, error}.
Envelope(id, result, error) == [id |-> id, result |-> result, error |-> error]

\* An executor call that throws instead of answering.
Thrown == Envelope(Absent, NoPayload, [type |-> "thrown", code |-> 0])

Request(id, taskId) == [id |-> id, taskId |-> taskId]
NoRequest == Request(Absent, Absent)
NoResponse == [op |-> "none", req |-> NoRequest, body |-> Envelope(Absent, NoPayload, NoError)]

\* "result" in response && response.result && typeof response.result === "object"
HasResult(response) == response.result.kind # "none"

\* ... && "taskId" in response.result: the responses the handler saves.
Persistable(response) == HasResult(response) /\ response.result.taskId # Absent

(***************************************************************************)
(* AgentExecutor: the collaborator, any answer it may give                 *)
(***************************************************************************)

\* The task id the executor works on: the request's, or one it assigns.
ExecTaskId(request) == IF request.taskId = Absent THEN "t1" ELSE request.taskId

\* The fields that carry the task id in an object the executor builds: id only
\* (the documented Task), taskId only (types/index.ts), or both.
IdShapes(tid) == {<<tid, Absent>>, <<Absent, tid>>, <<tid, tid>>}

ExecTasks(request, states) ==
  {Payload("task", sh[1], sh[2], st, FALSE, <<>>) :
     sh \in IdShapes(ExecTaskId(request)), st \in states}

\* onMessageSend: a Task, a Message (its taskId is optional), an error
\* response, or an exception.
ExecSendOutcomes(request) ==
  {Envelope(request.id, t, NoError) : t \in ExecTasks(request, {"working", "completed"})}
  \cup {Envelope(request.id, Payload("message", Absent, Absent, "none", FALSE, <<>>), NoError),
        Envelope(request.id,
                 Payload("message", Absent, ExecTaskId(request), "none", FALSE, <<>>),
                 NoError),
        Envelope(request.id, NoPayload, ExecutorError),
        Thrown}

\* onCancel: the canceled Task, an error response, or an exception.
ExecCancelOutcomes(request) ==
  {Envelope(request.id, t, NoError) : t \in ExecTasks(request, {"canceled"})}
  \cup {Envelope(request.id, NoPayload, TaskNotCancelableError),
        Envelope(request.id, NoPayload, ExecutorError),
        Thrown}

\* A status event in an envelope whose id is the task's id, as
\* ScenariosAgentExecutor.onTaskStream builds its envelopes.
TaskIdEnvelope(request) ==
  Envelope(ExecTaskId(request),
           Payload("status", ExecTaskId(request), Absent, "working", FALSE, <<>>),
           NoError)

\* What onMessageStream / onResubscribe may yield next.
ExecStreamEvents(request) ==
  {Envelope(request.id, Payload("status", sh[1], sh[2], st, fin, <<>>), NoError) :
     sh \in IdShapes(ExecTaskId(request)), st \in {"working", "completed"},
     fin \in BOOLEAN}
  \cup {Envelope(request.id, Payload("artifact", sh[1], sh[2], "none", FALSE, <<>>), NoError) :
          sh \in IdShapes(ExecTaskId(request))}
  \cup {Envelope(request.id, Payload("message", Absent, Absent, "none", FALSE, <<>>), NoError),
        Envelope(request.id, NoPayload, ExecutorError),
        TaskIdEnvelope(request)}

(***************************************************************************)
(* DefaultA2ARequestHandler                                                *)
(***************************************************************************)

\* An _appendMessageToTask that replaces the history by the new message.
appended_Replacing(m, request) ==
  IF request.taskId # Absent /\ MapHas(m, request.taskId)
    THEN MapSet(m, request.taskId,
                [MapGet(m, request.taskId) EXCEPT !.messages = <<request.id>>])
    ELSE m

\* _appendMessageToTask: task.messages.push(message) on the stored object
\* itself; the message is identified by the id of the request that carries it.
appended(m, request) ==
  IF request.taskId # Absent /\ MapHas(m, request.taskId)
    THEN MapSet(m, request.taskId,
                [MapGet(m, request.taskId) EXCEPT
                   !.messages = Append(@, request.id)])
    ELSE m

\* A tasks/get that answers with a Task of its own making, rebuilt from the
\* stored one's id.
onGetTask_Rebuilding(request) ==
  IF get(request.taskId) = Undefined
    THEN Envelope(request.id, NoPayload, TaskNotFoundError)
    ELSE Envelope(request.id,
                  Payload("task", request.taskId, request.taskId, "working",
                          FALSE, <<>>),
                  NoError)

\* onGetTask
onGetTask(request) ==
  IF get(request.taskId) = Undefined
    THEN Envelope(request.id, NoPayload, TaskNotFoundError)
    ELSE Envelope(request.id, get(request.taskId), NoError)

\* handleError of app.ts for a request whose headers are not sent yet.
handleError(request) == Envelope(request.id, NoPayload, InternalError)

\* The method names a client of this repository posts, and one that none does.
MethodNames ==
  {"message/send", "message/sendStream", "tasks/get", "tasks/cancel",
   "tasks/pushNotificationConfig/set", "tasks/pushNotificationConfig/get",
   "tasks/resubscribe", "tasks/send", "tasks/sendSubscribe", "tasks/unknown"}

\* The jsonrpc member of a POST body: the version, another one, or none.
JsonRpcVersions == {"2.0", "1.0", Absent}

\* The switch of the POST route of app.ts on jsonRpcRequest.method: the
\* handler operation a method name is handed to.
route(method) ==
  CASE method = "message/send" -> "send"
    [] method = "message/sendStream" -> "sendStream"
    [] method = "tasks/get" -> "get"
    [] method = "tasks/cancel" -> "cancel"
    [] method = "tasks/pushNotificationConfig/set" -> "pushSet"
    [] method = "tasks/pushNotificationConfig/get" -> "pushGet"
    [] method = "tasks/resubscribe" -> "resubscribe"
    [] OTHER -> "notFound"

\* The POST route reads req.body and switches on its method: the body that
\* reaches the operation op, whatever its jsonrpc member is.
Posted(op) ==
  \E m \in MethodNames, v \in JsonRpcVersions :
    /\ route(m) = op
    /\ posted' = [method |-> m, jsonrpc |-> v]

\* onSetTaskPushNotification and onGetTaskPushNotification
onTaskPushNotification(request) ==
  Envelope(request.id, NoPayload, UnsupportedOperationError)

\* tasks/pushNotificationConfig/set and /get, answered by the handler alone.
PushNotification ==
  /\ nops < MaxOps
  /\ \E rid \in ReqIds, tid \in TaskIds, op \in {"pushSet", "pushGet"} :
       /\ Posted(op)
       /\ recv' = [op |-> op, req |-> Request(rid, tid)]
       /\ resp' = [op |-> op, req |-> Request(rid, tid),
                   body |-> onTaskPushNotification(Request(rid, tid))]
  /\ nops' = nops + 1
  /\ quiet' = TRUE
  /\ UNCHANGED <<tasks, opc, oreq, before>>
  /\ UNCHANGED <<cvars, qvars, svars, dvars, avars>>

\* The default case of the switch: 400 with a Method not found error, and no
\* operation of the handler called.
PostNotFound ==
  /\ nops < MaxOps
  /\ \E rid \in ReqIds, tid \in TaskIds \cup {Absent} :
       /\ Posted("notFound")
       /\ recv' = [op |-> "notFound", req |-> Request(rid, tid)]
       /\ resp' = [op |-> "notFound", req |-> Request(rid, tid),
                   body |-> Envelope(rid, NoPayload, MethodNotFound)]
  /\ nops' = nops + 1
  /\ quiet' = TRUE
  /\ UNCHANGED <<tasks, opc, oreq, before>>
  /\ UNCHANGED <<cvars, qvars, svars, dvars, avars>>

GetTask ==
  /\ nops < MaxOps
  /\ \E rid \in ReqIds, tid \in TaskIds :
       /\ Posted("get")
       /\ recv' = [op |-> "get", req |-> Request(rid, tid)]
       /\ resp' = [op |-> "get", req |-> Request(rid, tid),
                   body |-> onGetTask(Request(rid, tid))]
  /\ nops' = nops + 1
  /\ quiet' = TRUE
  /\ UNCHANGED <<tasks, opc, oreq, before>>
  /\ UNCHANGED <<cvars, qvars, svars, dvars, avars>>

\* An onMessageSend that answers a send for a stored task in a terminal state
\* with an error of its own, the executor left alone.
SendStart_RejectingTerminal ==
  /\ opc = "idle"
  /\ nops < MaxOps
  /\ \E rid \in ReqIds, tid \in TaskIds \cup {Absent} :
       /\ Posted("send")
       /\ recv' = [op |-> "send", req |-> Request(rid, tid)]
       /\ IF tid # Absent /\ MapHas(tasks, tid)
             /\ get(tid).state \in {"completed", "canceled", "failed"}
            THEN /\ resp' = [op |-> "send", req |-> Request(rid, tid),
                             body |-> Envelope(rid, NoPayload, ExecutorError)]
                 /\ quiet' = TRUE
                 /\ UNCHANGED <<tasks, opc, oreq>>
            ELSE /\ oreq' = Request(rid, tid)
                 /\ tasks' = appended(tasks, Request(rid, tid))
                 /\ opc' = "send"
                 /\ quiet' = FALSE
                 /\ UNCHANGED resp
  /\ before' = tasks
  /\ nops' = nops + 1
  /\ UNCHANGED <<cvars, qvars, svars, dvars, avars>>

\* onMessageSend up to the call of the executor.
SendStart ==
  /\ opc = "idle"
  /\ nops < MaxOps
  /\ \E rid \in ReqIds, tid \in TaskIds \cup {Absent} :
       /\ Posted("send")
       /\ recv' = [op |-> "send", req |-> Request(rid, tid)]
       /\ oreq' = Request(rid, tid)
       /\ tasks' = appended(tasks, Request(rid, tid))
  /\ opc' = "send"
  /\ nops' = nops + 1
  /\ quiet' = FALSE
  /\ before' = tasks
  /\ UNCHANGED resp
  /\ UNCHANGED <<cvars, qvars, svars, dvars, avars>>

\* onMessageSend from the executor's answer on.
SendFinish ==
  /\ opc = "send"
  /\ \E r \in ExecSendOutcomes(oreq) :
       IF r = Thrown
         THEN /\ resp' = [op |-> "send", req |-> oreq, body |-> handleError(oreq)]
              /\ UNCHANGED tasks
         ELSE /\ resp' = [op |-> "send", req |-> oreq, body |-> r]
              /\ IF Persistable(r) THEN save(r.result) ELSE UNCHANGED tasks
  /\ opc' = "idle"
  /\ oreq' = NoRequest
  /\ quiet' = TRUE
  /\ UNCHANGED <<nops, recv, posted, before>>
  /\ UNCHANGED <<cvars, qvars, svars, dvars, avars>>

\* A tasks/cancel that calls the executor without looking the task up.
CancelStart_NotLooking ==
  /\ opc = "idle"
  /\ nops < MaxOps
  /\ \E rid \in ReqIds, tid \in TaskIds :
       /\ Posted("cancel")
       /\ recv' = [op |-> "cancel", req |-> Request(rid, tid)]
       /\ oreq' = Request(rid, tid)
  /\ opc' = "cancel"
  /\ nops' = nops + 1
  /\ UNCHANGED <<tasks, resp, quiet, before>>
  /\ UNCHANGED <<cvars, qvars, svars, dvars, avars>>

\* onCancelTask up to the call of the executor; a miss is answered at once.
CancelStart ==
  /\ opc = "idle"
  /\ nops < MaxOps
  /\ \E rid \in ReqIds, tid \in TaskIds :
       /\ Posted("cancel")
       /\ recv' = [op |-> "cancel", req |-> Request(rid, tid)]
       /\ IF get(tid) = Undefined
            THEN /\ resp' = [op |-> "cancel", req |-> Request(rid, tid),
                             body |-> Envelope(rid, NoPayload, TaskNotFoundError)]
                 /\ quiet' = TRUE
                 /\ UNCHANGED <<opc, oreq>>
            ELSE /\ opc' = "cancel"
                 /\ oreq' = Request(rid, tid)
                 /\ UNCHANGED <<resp, quiet>>
  /\ nops' = nops + 1
  /\ UNCHANGED <<tasks, before>>
  /\ UNCHANGED <<cvars, qvars, svars, dvars, avars>>

\* An onCancelTask that, once the executor has answered, ends the stream in
\* flight.
CancelFinish_EndingStream ==
  /\ opc = "cancel"
  /\ \E r \in ExecCancelOutcomes(oreq) :
       IF r = Thrown
         THEN /\ resp' = [op |-> "cancel", req |-> oreq, body |-> handleError(oreq)]
              /\ UNCHANGED tasks
         ELSE /\ resp' = [op |-> "cancel", req |-> oreq, body |-> r]
              /\ IF HasResult(r) THEN save(r.result) ELSE UNCHANGED tasks
  /\ opc' = "idle"
  /\ oreq' = NoRequest
  /\ quiet' = TRUE
  /\ spc' = IF spc \in {"idle", "done", "failed"} THEN spc ELSE "end"
  /\ UNCHANGED <<nops, recv, posted, before>>
  /\ UNCHANGED <<skind, sreq, sexec, scur, taken, handlerOut, frames, resEnded,
                 httpBody, inflight, cycSaved, socket>>
  /\ UNCHANGED <<qvars, svars, dvars, avars>>

\* onCancelTask from the executor's answer on.
CancelFinish ==
  /\ opc = "cancel"
  /\ \E r \in ExecCancelOutcomes(oreq) :
       IF r = Thrown
         THEN /\ resp' = [op |-> "cancel", req |-> oreq, body |-> handleError(oreq)]
              /\ UNCHANGED tasks
         ELSE /\ resp' = [op |-> "cancel", req |-> oreq, body |-> r]
              /\ IF HasResult(r) THEN save(r.result) ELSE UNCHANGED tasks
  /\ opc' = "idle"
  /\ oreq' = NoRequest
  /\ quiet' = TRUE
  /\ UNCHANGED <<nops, recv, posted, before>>
  /\ UNCHANGED <<cvars, qvars, svars, dvars, avars>>

(***************************************************************************)
(* A streaming cycle: the SSE loop of app.ts over the handler's generator  *)
(***************************************************************************)
DataFrame(response) == [t |-> "data", env |-> response]
EndFrame == [t |-> "end", env |-> Envelope(Absent, NoPayload, NoError)]

\* _setupSSEConsumer moving on to its yield without awaiting the save.
onResponse_NotAwaitingSave(response) ==
  IF Persistable(response)
    THEN /\ save(response.result)
         /\ inflight' = Append(inflight, response.result)
         /\ spc' = "yield"
    ELSE /\ spc' = "yield"
         /\ UNCHANGED <<tasks, inflight>>

\* _setupSSEConsumer, the body of its for-await loop up to the yield: a
\* response that carries a task is saved, and the save awaited.
onResponse(response) ==
  IF Persistable(response)
    THEN /\ save(response.result)
         /\ inflight' = Append(inflight, response.result)
         /\ spc' = "saving"
    ELSE /\ spc' = "yield"
         /\ UNCHANGED <<tasks, inflight>>

\* A catch block that answers with an error response of no id.
onStreamError_NoId(request) == Envelope(Absent, NoPayload, InternalError)

\* _setupSSEConsumer, its catch block: the response it yields for an error
\* thrown by the executor's stream.
onStreamError(request) == Envelope(request.id, NoPayload, InternalError)

\* message/sendStream: onMessageSendStream looks the task up, and
\* _setupSSEConsumer appends the message and opens the executor's stream.
StreamSendStart ==
  /\ spc = "idle"
  /\ \E rid \in ReqIds, tid \in TaskIds \cup {Absent} :
       /\ sreq' = Request(rid, tid)
       /\ tasks' = appended(tasks, Request(rid, tid))
  /\ Posted("sendStream")
  /\ skind' = "send"
  /\ sexec' = "running"
  /\ spc' = "pull"
  /\ quiet' = FALSE
  /\ UNCHANGED <<scur, taken, handlerOut, frames, resEnded, httpBody, inflight,
                 cycSaved, opc, oreq, nops, recv, before, socket, resp>>
  /\ UNCHANGED <<qvars, svars, dvars, avars>>

\* A tasks/resubscribe that first yields the stored Task, then the
\* executor's events.
ResubscribeStart_Backfilling ==
  /\ spc = "idle"
  /\ \E rid \in ReqIds, tid \in TaskIds :
       /\ sreq' = Request(rid, tid)
       /\ IF get(tid) = Undefined
            THEN /\ scur' = Envelope(rid, NoPayload, TaskNotFoundError)
                 /\ spc' = "yield-last"
                 /\ sexec' = "none"
            ELSE /\ scur' = Envelope(rid, get(tid), NoError)
                 /\ spc' = "yield"
                 /\ sexec' = "running"
  /\ Posted("resubscribe")
  /\ skind' = "resub"
  /\ UNCHANGED <<tasks, taken, handlerOut, frames, resEnded, httpBody, inflight,
                 cycSaved, opc, oreq, nops, recv, before, socket, resp, quiet>>
  /\ UNCHANGED <<qvars, svars, dvars, avars>>

\* tasks/resubscribe: onResubscribeToTask answers a miss with a single error
\* response, and hands the stream to the executor otherwise.
ResubscribeStart ==
  /\ spc = "idle"
  /\ \E rid \in ReqIds, tid \in TaskIds :
       /\ sreq' = Request(rid, tid)
       /\ IF get(tid) = Undefined
            THEN /\ scur' = Envelope(rid, NoPayload, TaskNotFoundError)
                 /\ spc' = "yield-last"
                 /\ sexec' = "none"
            ELSE /\ spc' = "pull"
                 /\ sexec' = "running"
                 /\ UNCHANGED scur
  /\ Posted("resubscribe")
  /\ skind' = "resub"
  /\ UNCHANGED <<tasks, taken, handlerOut, frames, resEnded, httpBody, inflight,
                 cycSaved, opc, oreq, nops, recv, before, socket,
                 resp, quiet>>
  /\ UNCHANGED <<qvars, svars, dvars, avars>>

\* The executor's stream yields a response.
ExecYield ==
  /\ spc = "pull"
  /\ Len(taken) < MaxEvents
  /\ \E ev \in ExecStreamEvents(sreq) :
       /\ taken' = Append(taken, ev)
       /\ scur' = ev
       /\ IF skind = "send"
            THEN onResponse(ev)
            ELSE /\ spc' = "yield"
                 /\ UNCHANGED <<tasks, inflight>>
  /\ quiet' = (quiet /\ tasks' = tasks)
  /\ UNCHANGED <<skind, sreq, sexec, handlerOut, frames, resEnded, httpBody,
                 cycSaved, opc, oreq, nops, recv, posted, before, socket, resp>>
  /\ UNCHANGED <<qvars, svars, dvars, avars>>

\* The promise returned by save resolves; the handler goes on if it awaits it.
SaveDone ==
  /\ inflight # <<>>
  /\ cycSaved' = Append(cycSaved, Head(inflight))
  /\ inflight' = Tail(inflight)
  /\ spc' = IF spc = "saving" THEN "yield" ELSE spc
  /\ UNCHANGED <<tasks, skind, sreq, sexec, scur, taken, handlerOut, frames,
                 resEnded, httpBody, opc, oreq, nops, recv, posted, before, socket,
                 resp, quiet>>
  /\ UNCHANGED <<qvars, svars, dvars, avars>>

\* The handler yields the response; the SSE loop writes it as a data frame,
\* or leaves the loop when the response has ended.
Forward ==
  /\ spc \in {"yield", "yield-last"}
  /\ handlerOut' = Append(handlerOut, scur)
  /\ IF resEnded
       THEN /\ spc' = "end"
            /\ UNCHANGED frames
       ELSE /\ frames' = Append(frames, DataFrame(scur))
            /\ spc' = IF spc = "yield" THEN "pull" ELSE "end"
  /\ UNCHANGED <<tasks, skind, sreq, sexec, scur, taken, resEnded, httpBody,
                 inflight, cycSaved, opc, oreq, nops, recv, posted, before, socket,
                 resp, quiet>>
  /\ UNCHANGED <<qvars, svars, dvars, avars>>

\* The executor's stream ends: so does the handler's generator.
ExecEnd ==
  /\ spc = "pull"
  /\ sexec' = "returned"
  /\ spc' = "end"
  /\ UNCHANGED <<tasks, skind, sreq, scur, taken, handlerOut, frames, resEnded,
                 httpBody, inflight, cycSaved, opc, oreq, nops, recv, posted, before, socket,
                 resp, quiet>>
  /\ UNCHANGED <<qvars, svars, dvars, avars>>

\* The executor's stream throws.  _setupSSEConsumer catches it and yields an
\* InternalError response; onResubscribeToTask lets it through to the SSE
\* loop, whose handleError answers only if the headers are not sent yet.
ExecThrow ==
  /\ spc = "pull"
  /\ sexec' = "threw"
  /\ IF skind = "send"
       THEN /\ scur' = onStreamError(sreq)
            /\ spc' = "yield-last"
            /\ UNCHANGED <<httpBody, resEnded>>
       ELSE /\ spc' = "failed"
            /\ IF frames = <<>>
                 THEN /\ httpBody' = handleError(sreq)
                      /\ resEnded' = TRUE
                 ELSE UNCHANGED <<httpBody, resEnded>>
            /\ UNCHANGED scur
  /\ UNCHANGED <<tasks, skind, sreq, taken, handlerOut, frames, inflight,
                 cycSaved, opc, oreq, nops, recv, posted, before, socket,
                 resp, quiet>>
  /\ UNCHANGED <<qvars, svars, dvars, avars>>

\* After the loop: the end sentinel is written and the response ended.
AppEnd ==
  /\ spc = "end"
  /\ IF ~resEnded
       THEN /\ frames' = Append(frames, EndFrame)
            /\ resEnded' = TRUE
       ELSE UNCHANGED <<frames, resEnded>>
  /\ spc' = "done"
  /\ UNCHANGED <<tasks, skind, sreq, sexec, scur, taken, handlerOut, httpBody,
                 inflight, cycSaved, opc, oreq, nops, recv, posted, before, socket,
                 resp, quiet>>
  /\ UNCHANGED <<qvars, svars, dvars, avars>>

\* The client closes the connection of a stream in flight.  app.ts listens to
\* no close event, and res.writableEnded, which res.end() alone sets, stays as
\* it is: the loop goes on, its calls of res.write included.
ClientDisconnect ==
  /\ spc \notin {"idle", "done", "failed"}
  /\ ~socket.closed
  /\ ~resEnded
  /\ socket' = [closed |-> TRUE, frames |-> Len(frames), taken |-> Len(taken),
                stored |-> tasks]
  /\ UNCHANGED <<tasks, spc, skind, sreq, sexec, scur, taken, handlerOut,
                 frames, resEnded, httpBody, inflight, cycSaved>>
  /\ UNCHANGED <<ovars, qvars, svars, dvars, avars>>

(***************************************************************************)
(* Requests for a task while a streaming cycle for it is in flight         *)
(***************************************************************************)

\* The request that opens the cycle, and the one that arrives during it.
StreamRequest == Request("r1", "t1")
OtherRequest == Request("r2", "t1")

\* What the executor of the cycle yields: a working and a final completed
\* status that carry a snapshot of the task, and an artifact that does not.
ConcurrentEvents ==
  {ev \in ExecStreamEvents(StreamRequest) :
     /\ ev.id = "r1"
     /\ ev.error = NoError
     /\ \/ /\ ev.result.kind = "status"
            /\ ev.result.id = "t1"
            /\ ev.result.taskId = "t1"
            /\ ev.result.final = (ev.result.state = "completed")
        \/ /\ ev.result.kind = "artifact"
            /\ ev.result.taskId = Absent}

\* What the executor answers to the request that arrives during the cycle: a
\* Task stored under the task's id, or an error response.
ConcurrentAnswers ==
  {r \in (ExecSendOutcomes(OtherRequest) \cup ExecCancelOutcomes(OtherRequest))
          \ {Thrown} :
     \/ r.error # NoError
     \/ /\ r.result.kind = "task"
        /\ r.result.id = "t1"
        /\ r.result.taskId = "t1"
        /\ r.result.state \in {"completed", "canceled"}}

ConcurrentStreamStart ==
  /\ StreamSendStart
  /\ sreq' = StreamRequest
  /\ posted'.jsonrpc = "2.0"

ConcurrentYield ==
  /\ ExecYield
  /\ scur' \in ConcurrentEvents

ConcurrentSendStart ==
  /\ spc # "idle"
  /\ nops < MaxArrivals
  /\ SendStart
  /\ oreq' = OtherRequest
  /\ posted'.jsonrpc = "2.0"

ConcurrentSendFinish ==
  /\ SendFinish
  /\ resp'.body \in ConcurrentAnswers

ConcurrentCancelStart ==
  /\ spc # "idle"
  /\ nops < MaxArrivals
  /\ CancelStart
  /\ recv'.req = OtherRequest
  /\ posted'.jsonrpc = "2.0"

ConcurrentCancelFinish ==
  /\ CancelFinish
  /\ resp'.body \in ConcurrentAnswers

ConcurrentGet ==
  /\ spc # "idle"
  /\ nops < MaxArrivals
  /\ GetTask
  /\ recv'.req = OtherRequest
  /\ posted'.jsonrpc = "2.0"

(***************************************************************************)
(* ScenariosTestAgent and ScenariosAgentExecutor: a streamed scenario      *)
(***************************************************************************)
ChunkSize == 5
MaxContent == 6

\* The characters of a text: two letters and a line terminator.
Chars == {"a", "b", "\n"}
Texts(n) == UNION {[1..k -> Chars] : k \in 0..n}

\* What ScenariosTestAgent.stream yields: a status update, a chunk of the
\* artifact, or a piece of plain content.
Chunk(isStatusUpdate, state, done, artifactContent, artifactAppend, artifactLastChunk) ==
  [isStatusUpdate |-> isStatusUpdate, state |-> state, done |-> done,
   artifactContent |-> artifactContent, artifactIndex |-> 0,
   artifactAppend |-> artifactAppend, artifactLastChunk |-> artifactLastChunk]
StatusChunk(state, done) == Chunk(TRUE, state, done, <<>>, FALSE, FALSE)
ContentChunk == Chunk(FALSE, "none", FALSE, <<>>, FALSE, FALSE)

\* The length of the match of .{1,5} at the head of s: the characters before
\* the first line terminator, ChunkSize of them at most.
RECURSIVE dots(_, _)
dots(s, n) ==
  IF s = <<>> \/ n = 0 \/ Head(s) = "\n" THEN 0
  ELSE 1 + dots(Tail(s), n - 1)

\* artifactContent.match(/.{1,5}/g): the matches from left to right, a
\* character at which nothing matches being stepped over; <<>> stands for null.
RECURSIVE match(_)
match(s) ==
  IF s = <<>> THEN <<>>
  ELSE IF dots(s, ChunkSize) = 0 THEN match(Tail(s))
  ELSE <<SubSeq(s, 1, dots(s, ChunkSize))>>
         \o match(SubSeq(s, dots(s, ChunkSize) + 1, Len(s)))

\* const chunks = this.artifactContent.match(/.{1,5}/g) || [this.artifactContent]
chunksOf(content) ==
  IF match(content) = <<>> THEN <<content>> ELSE match(content)

\* A loop over the chunks that marks none of them as an append.
artifactChunks_NeverAppending(content) ==
  [i \in 1..Len(chunksOf(content)) |->
     Chunk(FALSE, "none", FALSE, chunksOf(content)[i], FALSE,
           i = Len(chunksOf(content)))]

\* The loop of stream over the chunks: the first one replaces, the others
\* append, the last one is marked as the last.
artifactChunks(content) ==
  [i \in 1..Len(chunksOf(content)) |->
     Chunk(FALSE, "none", FALSE, chunksOf(content)[i], i # 1,
           i = Len(chunksOf(content)))]

\* The status update stream yields last, with done = true.
finalChunk(cfg) ==
  IF cfg.inputRequired /\ ~cfg.additionalInformation
    THEN StatusChunk("input-required", TRUE)
    ELSE StatusChunk("completed", TRUE)

\* A stream that yields its last status update before its working ones.
stream_FinalFirst(cfg) ==
  <<finalChunk(cfg)>>
  \o (IF cfg.workingState
        THEN <<StatusChunk("working", FALSE), StatusChunk("working", FALSE),
               StatusChunk("working", FALSE)>>
        ELSE <<>>)
  \o (IF cfg.artifactContent # <<>>
        THEN artifactChunks(cfg.artifactContent)
        ELSE <<ContentChunk, ContentChunk, ContentChunk, ContentChunk>>)

\* ScenariosTestAgent.stream, the chunks it yields for a configuration.
stream(cfg) ==
  (IF cfg.workingState
     THEN <<StatusChunk("working", FALSE), StatusChunk("working", FALSE),
            StatusChunk("working", FALSE)>>
     ELSE <<>>)
  \o (IF cfg.artifactContent # <<>>
        THEN artifactChunks(cfg.artifactContent)
        ELSE <<ContentChunk, ContentChunk, ContentChunk, ContentChunk>>)
  \o <<finalChunk(cfg)>>

\* The result of an envelope of ScenariosAgentExecutor.onTaskStream: a
\* TaskStatusUpdateEvent or a TaskArtifactUpdateEvent.
StatusEvent(state, final) ==
  [type |-> "taskStatusUpdate", state |-> state, final |-> final,
   text |-> <<>>, index |-> 0, append |-> FALSE, lastChunk |-> FALSE]
ArtifactEvent(chunk) ==
  [type |-> "taskArtifactUpdate", state |-> "none", final |-> FALSE,
   text |-> chunk.artifactContent, index |-> chunk.artifactIndex,
   append |-> chunk.artifactAppend, lastChunk |-> chunk.artifactLastChunk]

\* The chunks onTaskStream makes an event of.
IsEventChunk(chunk) == chunk.isStatusUpdate \/ chunk.artifactContent # <<>>

\* ScenariosAgentExecutor.onTaskStream: an event per status or artifact
\* chunk, and a final completed status when the last of them was no status.
onTaskStream(chunks) ==
  LET used == SelectSeq(chunks, IsEventChunk)
      events == [i \in 1..Len(used) |->
                   IF used[i].isStatusUpdate
                     THEN StatusEvent(used[i].state, used[i].done)
                     ELSE ArtifactEvent(used[i])]
  IN IF used # <<>> /\ used[Len(used)].isStatusUpdate
       THEN events
       ELSE Append(events, StatusEvent("completed", TRUE))

\* The artifact events among the chunks a caller has collected.
IsArtifactEvent(event) == event.type = "taskArtifactUpdate"
artifactEvents(collected) == SelectSeq(collected, IsArtifactEvent)

\* The loop of the caller over the artifact events: an event that does not
\* append replaces the text, one that appends is concatenated to it.
RECURSIVE assembled(_, _)
assembled(full, events) ==
  IF events = <<>> THEN full
  ELSE assembled(IF ~Head(events).append THEN Head(events).text
                 ELSE full \o Head(events).text,
                 Tail(events))

NoConfig ==
  [artifactContent |-> <<>>, workingState |-> FALSE, inputRequired |-> FALSE,
   additionalInformation |-> FALSE]
ScenarioConfigs ==
  [artifactContent : Texts(MaxContent), workingState : BOOLEAN,
   inputRequired : BOOLEAN, additionalInformation : BOOLEAN]

\* The caller's for-await loop is handed the next event of the stream.
ScenarioYield ==
  /\ apc = "streaming"
  /\ Len(streamingChunks) < Len(onTaskStream(stream(acfg)))
  /\ streamingChunks' =
       Append(streamingChunks,
              onTaskStream(stream(acfg))[Len(streamingChunks) + 1])
  /\ UNCHANGED <<acfg, apc, fullArtifactContent, taskStore, replies>>
  /\ UNCHANGED <<tasks, qvars, svars, ovars, cvars, dvars>>

\* The stream has ended: the caller assembles the text of the artifact.
ScenarioEnd ==
  /\ apc = "streaming"
  /\ Len(streamingChunks) = Len(onTaskStream(stream(acfg)))
  /\ apc' = "done"
  /\ fullArtifactContent' = assembled(<<>>, artifactEvents(streamingChunks))
  /\ UNCHANGED <<acfg, streamingChunks, taskStore, replies>>
  /\ UNCHANGED <<tasks, qvars, svars, ovars, cvars, dvars>>

(***************************************************************************)
(* ScenariosAgentExecutor.onTaskSend: the turns of a scenario              *)
(***************************************************************************)
MaxTurns == 2

\* The texts of a message, by the first test of ScenariosTestAgent.invoke
\* they pass: /support tickets/i, /analyze this image/i, /from.+to.+\d{4}/i,
\* includes('additional information'), or none of them.
MessageTexts ==
  {"support tickets", "analyze this image", "from JFK to LHR 2024",
   "additional information", "other"}

\* What invoke returns: the state of the task, or the exception it throws.
Invoked(state) == [state |-> state, threw |-> FALSE]
InvokeThrows == [state |-> "none", threw |-> TRUE]

\* JSON.parse of a text of letters and line terminators: a SyntaxError, the
\* empty text included.
IsJSON(text) == FALSE

\* ScenariosTestAgent.invoke
invoke(cfg, message) ==
  IF message = "support tickets"
    THEN (IF IsJSON(cfg.artifactContent) THEN Invoked("completed") ELSE InvokeThrows)
  ELSE IF message = "analyze this image" THEN Invoked("completed")
  ELSE IF cfg.inputRequired /\ message = "from JFK to LHR 2024"
    THEN Invoked("completed")
  ELSE IF cfg.inputRequired /\ message # "additional information"
    THEN Invoked("input-required")
  ELSE Invoked(IF cfg.inputRequired THEN "completed"
               ELSE IF cfg.workingState THEN "working" ELSE "completed")

\* An onTaskSend that does not look at the task of the earlier turn.
onTaskSend_NotLookingUp(store, cfg, taskId, message) == invoke(cfg, message)

\* ScenariosAgentExecutor.onTaskSend: a task the executor left in
\* input-required is answered as if the message carried the flight details.
onTaskSend(store, cfg, taskId, message) ==
  IF MapHas(store, taskId) /\ MapGet(store, taskId).state = "input-required"
    THEN invoke(cfg, "from JFK to LHR 2024")
    ELSE invoke(cfg, message)

\* The Task onTaskSend builds, stores and returns: {id: taskId, status}.
ResponseTask(taskId, state) ==
  Payload("task", taskId, Absent, state, FALSE, <<>>)

\* InMemoryA2AClient.sendTask: the call of onTaskSend, the Task it resolves
\* with or the exception it rejects with.
ScenarioSend ==
  /\ apc = "turns"
  /\ Len(replies) < MaxTurns
  /\ \E taskId \in TaskIds, message \in MessageTexts :
       LET result == onTaskSend(taskStore, acfg, taskId, message) IN
         /\ replies' = Append(replies,
                              [taskId |-> taskId, message |-> message,
                               fresh |-> ~MapHas(taskStore, taskId),
                               threw |-> result.threw,
                               task |-> IF result.threw THEN NoPayload
                                        ELSE ResponseTask(taskId, result.state)])
         /\ taskStore' = IF result.threw THEN taskStore
                         ELSE MapSet(taskStore, taskId,
                                     ResponseTask(taskId, result.state))
  /\ UNCHANGED <<acfg, apc, streamingChunks, fullArtifactContent>>
  /\ UNCHANGED <<tasks, qvars, svars, ovars, cvars, dvars>>

(***************************************************************************)
(* Initial states and specifications                                       *)
(***************************************************************************)
InitQueueVars ==
  /\ queue = <<>>
  /\ waitResolve = 0
  /\ closed = FALSE
  /\ calls = <<>>
  /\ pushLog = <<>>
  /\ itpc = "idle"
  /\ yielded = <<>>
  /\ lastOp = "none"

InitStoreVars ==
  /\ tasks = <<>>
  /\ saves = <<>>
  /\ got = [id |-> Absent, v |-> Undefined, at |-> 0]

InitHandlerVars ==
  /\ opc = "idle"
  /\ oreq = NoRequest
  /\ nops = 0
  /\ recv = [op |-> "none", req |-> NoRequest]
  /\ posted = [method |-> Absent, jsonrpc |-> Absent]
  /\ before = <<>>
  /\ resp = NoResponse
  /\ quiet = FALSE
  /\ spc = "idle"
  /\ skind = "none"
  /\ sreq = NoRequest
  /\ sexec = "none"
  /\ scur = Envelope(Absent, NoPayload, NoError)
  /\ taken = <<>>
  /\ handlerOut = <<>>
  /\ frames = <<>>
  /\ resEnded = FALSE
  /\ httpBody = Envelope(Absent, NoPayload, NoError)
  /\ inflight = <<>>
  /\ cycSaved = <<>>
  /\ socket = [closed |-> FALSE, frames |-> 0, taken |-> 0, stored |-> <<>>]

\* No scenario is being streamed.
InitScenarioVars ==
  /\ acfg = NoConfig
  /\ apc = "idle"
  /\ streamingChunks = <<>>
  /\ fullArtifactContent = <<>>
  /\ taskStore = <<>>
  /\ replies = <<>>

\* No response body is being decoded.
InitClientVars ==
  /\ cmethod = "none"
  /\ sent = <<>>
  /\ wire = <<>>
  /\ buffer = <<>>
  /\ delivered = <<>>
  /\ dpc = "idle"
  /\ cutInDelimiter = FALSE

Init ==
  /\ InitQueueVars
  /\ InitStoreVars
  /\ InitHandlerVars
  /\ InitClientVars
  /\ InitScenarioVars

\* The queue with its producer and its single consumer.
NextQueue ==
  \/ Push
  \/ Close
  \/ NextCall
  \/ IterStart
  \/ IterCall
  \/ IterResume

SpecQueue == Init /\ [][NextQueue]_vars

\* The queue with callers that do not wait for their earlier next().
NextQueueOverlap ==
  \/ Push
  \/ Close
  \/ NextCall
  \/ NextWhileSuspended
  \/ IterStart
  \/ IterCall
  \/ IterResume

SpecQueueOverlap == Init /\ [][NextQueueOverlap]_vars

\* The for-await loop is running code: the event loop runs its next step.
SpecQueueLive == SpecQueue /\ WF_vars(IterCall) /\ WF_vars(IterResume)

\* The store with a client of its own.
NextStore ==
  \/ StoreSave
  \/ StoreGet

SpecStore == Init /\ [][NextStore]_vars

\* The request handler over the store: the non-streaming requests, one at a
\* time at the executor.
Next ==
  \/ GetTask
  \/ SendStart
  \/ SendFinish
  \/ CancelStart
  \/ CancelFinish
  \/ PushNotification
  \/ PostNotFound

Spec == Init /\ [][Next]_vars

\* A stored Task, as a send or a cancel leaves it in the store.
StoredTask(tid) == Payload("task", tid, tid, "completed", FALSE, <<>>)

\* One streaming cycle, opened on an empty store or on a store that holds the
\* task of an earlier send, with or without a message of a later send.
InitStream ==
  /\ InitQueueVars
  /\ InitHandlerVars
  /\ InitClientVars
  /\ InitScenarioVars
  /\ saves = <<>>
  /\ got = [id |-> Absent, v |-> Undefined, at |-> 0]
  /\ tasks \in {<<>>, saved(<<>>, StoredTask("t1")),
               appended(saved(<<>>, StoredTask("t1")), Request("r1", "t1"))}

NextStream ==
  \/ StreamSendStart
  \/ ResubscribeStart
  \/ ExecYield
  \/ SaveDone
  \/ Forward
  \/ ExecEnd
  \/ ExecThrow
  \/ AppEnd

SpecStream == InitStream /\ [][NextStream]_vars

\* One streaming cycle for a stored task, the requests that arrive for that
\* task while it is in flight, and the client that may close the connection.
InitConcurrent ==
  /\ InitStream
  /\ tasks = saved(<<>>, StoredTask("t1"))

NextConcurrent ==
  \/ ConcurrentStreamStart
  \/ ConcurrentYield
  \/ SaveDone
  \/ Forward
  \/ ExecEnd
  \/ ExecThrow
  \/ AppEnd
  \/ ClientDisconnect
  \/ ConcurrentSendStart
  \/ ConcurrentSendFinish
  \/ ConcurrentCancelStart
  \/ ConcurrentCancelFinish
  \/ ConcurrentGet

SpecConcurrent == InitConcurrent /\ [][NextConcurrent]_vars

(***************************************************************************)
(* The SSE wire format (app.ts) and the client's decoder (A2AClient)       *)
(***************************************************************************)

\* A streaming envelope as the wire carries it: its id and the member it
\* has, result or error.  JSON.stringify writes it as the text {<id><member>},
\* one character for the id and one for the member.
WireIds == {"1", "2"}
WireMembers == {"r", "e"}
WireEnvelope(id, member) == [id |-> id, member |-> member]
WireEnvelopes == {WireEnvelope("1", "r"), WireEnvelope("2", "e")}
\* The value of the JSON text {}.
EmptyObject == WireEnvelope(Absent, Absent)

JSONstringify(env) == <<"{", env.id, env.member, "}">>

\* JSON.parse: the value of a text, or a SyntaxError.
JSONparse(text) ==
  IF text = <<"{", "}">>
    THEN [ok |-> TRUE, v |-> EmptyObject]
  ELSE IF /\ Len(text) = 4
          /\ text[1] = "{"
          /\ text[2] \in WireIds
          /\ text[3] \in WireMembers
          /\ text[4] = "}"
    THEN [ok |-> TRUE, v |-> WireEnvelope(text[2], text[3])]
  ELSE [ok |-> FALSE, v |-> EmptyObject]

\* res.write(`data: ${JSON.stringify(chunk)}\n\n`)
sseData(env) ==
  <<"d", "a", "t", "a", ":", " ">> \o JSONstringify(env) \o <<"\n", "\n">>

\* res.write("event: end\ndata: {}\n\n")
sseEnd ==
  <<"e", "v", "e", "n", "t", ":", " ", "e", "n", "d", "\n",
    "d", "a", "t", "a", ":", " ", "{", "}", "\n", "\n">>

\* A data frame whose payload is not JSON: the text {1 .
sseBad == <<"d", "a", "t", "a", ":", " ", "{", "1", "\n", "\n">>

\* The frames of a response body: data frames of envelopes, data frames of a
\* payload that is not JSON, and the end sentinel.
WireFrames ==
  {[t |-> "data", env |-> e] : e \in WireEnvelopes}
  \cup {[t |-> "bad", env |-> EmptyObject], [t |-> "end", env |-> EmptyObject]}

FrameText(f) ==
  CASE f.t = "data" -> sseData(f.env)
    [] f.t = "bad" -> sseBad
    [] f.t = "end" -> sseEnd

RECURSIVE BodyText(_)
BodyText(fs) == IF fs = <<>> THEN <<>> ELSE FrameText(Head(fs)) \o BodyText(Tail(fs))

\* String.prototype.split("\n\n") and split("\n").
\* The first index from i on at which sep, of one or two characters, occurs
\* in s, 0 when there is none.
RECURSIVE IndexOf(_, _, _)
IndexOf(s, sep, i) ==
  IF i + Len(sep) - 1 > Len(s) THEN 0
  ELSE IF s[i] = sep[1] /\ (Len(sep) = 1 \/ s[i + 1] = sep[2]) THEN i
  ELSE IndexOf(s, sep, i + 1)

RECURSIVE split(_, _)
split(s, sep) ==
  LET i == IndexOf(s, sep, 1)
  IN  IF i = 0 THEN <<s>>
      ELSE <<SubSeq(s, 1, i - 1)>> \o split(SubSeq(s, i + Len(sep), Len(s)), sep)

split2(s) == split(s, <<"\n", "\n">>)
split1(s) == split(s, <<"\n">>)

\* String.prototype.trim, startsWith and slice.
WhiteSpace == {" ", "\n"}
RECURSIVE trimStart(_)
trimStart(s) ==
  IF s # <<>> /\ Head(s) \in WhiteSpace THEN trimStart(Tail(s)) ELSE s
RECURSIVE trimEnd(_)
trimEnd(s) ==
  IF s # <<>> /\ s[Len(s)] \in WhiteSpace
    THEN trimEnd(SubSeq(s, 1, Len(s) - 1)) ELSE s
trim(s) == trimEnd(trimStart(s))
startsWith(s, prefix) ==
  Len(s) >= Len(prefix) /\ SubSeq(s, 1, Len(prefix)) = prefix
slice(s, n) == SubSeq(s, n + 1, Len(s))

\* for (const line of lines): data += line.slice(5).trim() for the lines
\* that start with data:, eventType = line.slice(6).trim() for those that
\* start with event: (sendMessageStreaming only).
RECURSIVE dataOf(_)
dataOf(lines) ==
  IF lines = <<>> THEN <<>>
  ELSE (IF startsWith(Head(lines), <<"d", "a", "t", "a", ":">>)
          THEN trim(slice(Head(lines), 5)) ELSE <<>>)
       \o dataOf(Tail(lines))

RECURSIVE eventTypeOf(_, _)
eventTypeOf(lines, eventType) ==
  IF lines = <<>> THEN eventType
  ELSE eventTypeOf(Tail(lines),
         IF /\ ~startsWith(Head(lines), <<"d", "a", "t", "a", ":">>)
            /\ startsWith(Head(lines), <<"e", "v", "e", "n", "t", ":">>)
           THEN trim(slice(Head(lines), 6)) ELSE eventType)

\* What the decoder does with one part of the buffer: stop or go on, and
\* the values it yields.
Step(stop, out) == [stop |-> stop, out |-> out]

\* A catch block that ends the decoding on a payload that does not parse.
onParseError_Aborting == Step(TRUE, <<>>)

\* catch (e) { }: the payload that does not parse is skipped.
onParseError == Step(FALSE, <<>>)

\* The body of the loop over the parts: sendMessageStreaming returns on the
\* event type end, sendTaskSubscribe and resubscribeTask read no event line.
onPart(m, part) ==
  LET lines == split1(part)
      data == dataOf(lines)
      parsed == JSONparse(data)
  IN  IF trim(part) = <<>> THEN Step(FALSE, <<>>)
      ELSE IF /\ m = "sendMessageStreaming"
              /\ eventTypeOf(lines, <<"m", "e", "s", "s", "a", "g", "e">>)
                   = <<"e", "n", "d">>
        THEN Step(TRUE, <<>>)
      ELSE IF data = <<>> THEN Step(FALSE, <<>>)
      ELSE IF parsed.ok THEN Step(FALSE, <<parsed.v>>)
      ELSE onParseError

RECURSIVE onParts(_, _)
onParts(m, parts) ==
  IF parts = <<>> THEN Step(FALSE, <<>>)
  ELSE LET first == onPart(m, Head(parts))
           rest == onParts(m, Tail(parts))
       IN  IF first.stop THEN first
           ELSE Step(rest.stop, first.out \o rest.out)

\* A decoder that keeps nothing of the buffer for the next read.
popped_Nothing(parts) == <<>>

\* buffer = parts.pop() || "": the part after the last delimiter is kept.
popped(parts) == parts[Len(parts)]

Front(parts) == SubSeq(parts, 1, Len(parts) - 1)

ClientMethods == {"sendTaskSubscribe", "resubscribeTask", "sendMessageStreaming"}

\* reader.read() gives the next chunk of the body, of any length, and the
\* complete parts of the buffer are decoded.
ClientRead ==
  /\ dpc = "reading"
  /\ wire # <<>>
  /\ \E n \in 1..Len(wire) :
       LET parts == split2(buffer \o SubSeq(wire, 1, n))
           r == onParts(cmethod, Front(parts))
       IN  /\ wire' = SubSeq(wire, n + 1, Len(wire))
           /\ buffer' = popped(parts)
           /\ delivered' = delivered \o r.out
           /\ dpc' = IF r.stop THEN "returned" ELSE "reading"
           /\ cutInDelimiter' =
                (cutInDelimiter \/ (n < Len(wire) /\ wire[n] = "\n" /\ wire[n + 1] = "\n"))
  /\ UNCHANGED <<cmethod, sent>>
  /\ UNCHANGED <<tasks, qvars, svars, ovars, cvars, avars>>

\* reader.read() reports the end of the body: the loop is left.
ClientDone ==
  /\ dpc = "reading"
  /\ wire = <<>>
  /\ dpc' = "done"
  /\ UNCHANGED <<cmethod, sent, wire, buffer, delivered, cutInDelimiter>>
  /\ UNCHANGED <<tasks, qvars, svars, ovars, cvars, avars>>

\* An end of the body at which the text left in the buffer is decoded as a
\* last part.
ClientCut_Flushing ==
  /\ dpc = "reading"
  /\ wire # <<>>
  /\ dpc' = "done"
  /\ delivered' = delivered \o onPart(cmethod, buffer).out
  /\ UNCHANGED <<cmethod, sent, wire, buffer, cutInDelimiter>>
  /\ UNCHANGED <<tasks, qvars, svars, ovars, cvars, avars>>

\* reader.read() reports the end of the body before the whole of it has
\* arrived (the connection is lost): the loop is left, the buffer with it.
ClientCut ==
  /\ dpc = "reading"
  /\ wire # <<>>
  /\ dpc' = "done"
  /\ UNCHANGED <<cmethod, sent, wire, buffer, delivered, cutInDelimiter>>
  /\ UNCHANGED <<tasks, qvars, svars, ovars, cvars, avars>>

\* The sequences of at most n frames of fset.
RECURSIVE FrameSeqs(_, _)
FrameSeqs(fset, n) ==
  IF n = 0 THEN {<<>>}
  ELSE LET shorter == FrameSeqs(fset, n - 1)
       IN  shorter \cup {Append(fs, f) : fs \in {s \in shorter : Len(s) = n - 1},
                                         f \in fset}

\* A client method has sent its request and reads a response body made of
\* frames of fset.
InitClientOn(fset) ==
  /\ InitQueueVars
  /\ InitStoreVars
  /\ InitHandlerVars
  /\ InitScenarioVars
  /\ cmethod \in ClientMethods
  /\ sent \in FrameSeqs(fset, MaxFrames)
  /\ wire = BodyText(sent)
  /\ buffer = <<>>
  /\ delivered = <<>>
  /\ dpc = "reading"
  /\ cutInDelimiter = FALSE

NextClient ==
  \/ ClientRead
  \/ ClientDone

\* The decoder on a body of any frames, the end sentinel wherever it is.
InitClient == InitClientOn(WireFrames)
SpecClient == InitClient /\ [][NextClient]_vars

\* The decoder on a body of data frames only, the frames of the loop of the
\* server before its sentinel.
InitClientData == InitClientOn({f \in WireFrames : f.t # "end"})
SpecClientData == InitClientData /\ [][NextClient]_vars

\* The decoder on a body of data frames whose end may be lost.
NextClientCut ==
  \/ ClientRead
  \/ ClientDone
  \/ ClientCut

SpecClientCut == InitClientData /\ [][NextClientCut]_vars

\* One streamed scenario: the agent configured with any text of MaxContent
\* characters at most as its artifact, or with none, and its events collected
\* by the caller of the stream.
InitScenario ==
  /\ InitQueueVars
  /\ InitStoreVars
  /\ InitHandlerVars
  /\ InitClientVars
  /\ acfg \in ScenarioConfigs
  /\ apc = "streaming"
  /\ streamingChunks = <<>>
  /\ fullArtifactContent = <<>>
  /\ taskStore = <<>>
  /\ replies = <<>>

NextScenario ==
  \/ ScenarioYield
  \/ ScenarioEnd

SpecScenario == InitScenario /\ [][NextScenario]_vars

\* The turns of a scenario: the executor configured once, then sendTask
\* calls of any text for any task id.
InitTurns ==
  /\ InitQueueVars
  /\ InitStoreVars
  /\ InitHandlerVars
  /\ InitClientVars
  /\ acfg \in {c \in ScenarioConfigs :
                 Len(c.artifactContent) <= 1 /\ ~c.additionalInformation}
  /\ apc = "turns"
  /\ streamingChunks = <<>>
  /\ fullArtifactContent = <<>>
  /\ taskStore = <<>>
  /\ replies = <<>>

NextTurns ==
  \/ ScenarioSend

SpecTurns == InitTurns /\ [][NextTurns]_vars

(***************************************************************************)
(* Claims about the queue                                                  *)
(***************************************************************************)
RECURSIVE CountIn(_, _)
CountIn(x, seq) ==
  IF seq = <<>> THEN 0
  ELSE (IF Head(seq) = x THEN 1 ELSE 0) + CountIn(x, Tail(seq))

\* The items whose push returned true, and the items next() has returned.
AcceptedSeq == [i \in 1..Len(SelectSeq(pushLog, LAMBDA e : e.ret)) |->
                  SelectSeq(pushLog, LAMBDA e : e.ret)[i].item]
DeliveredSeq == [i \in 1..Len(SelectSeq(calls, LAMBDA c : c.st = "item")) |->
                  SelectSeq(calls, LAMBDA c : c.st = "item")[i].v]

\* C3: next() returns null only when the queue is closed and its buffer is
\* empty, and a for-await loop that has run to its end has been given every
\* item whose push returned true, each exactly once.
C3_DrainBeforeSentinel ==
  /\ (\E i \in 1..Len(calls) : calls[i] = Null) => (closed /\ queue = <<>>)
  /\ itpc = "done" =>
       \A x \in Items : CountIn(x, DeliveredSeq) = CountIn(x, AcceptedSeq)

\* C4: a push on a closed queue returns false and changes nothing of the
\* queue; a push on an open queue returns true.
C4_PushAfterClose ==
  [][Len(pushLog') = Len(pushLog) + 1 =>
       IF closed
         THEN /\ pushLog'[Len(pushLog')].ret = FALSE
              /\ UNCHANGED <<queue, waitResolve, closed, calls>>
         ELSE pushLog'[Len(pushLog')].ret = TRUE]_vars

C4_Witness ==
  /\ lastOp = "push-refused"
  /\ \E i \in 1..Len(pushLog) : pushLog[i].ret

\* C5: a push that finds the consumer suspended resolves it with the pushed
\* item and buffers nothing; a suspended consumer and a non-empty buffer
\* never coexist.
C5_WakeDirectly ==
  /\ [](waitResolve # 0 => queue = <<>>)
  /\ [][(Len(pushLog') = Len(pushLog) + 1 /\ waitResolve # 0 /\ ~closed) =>
          /\ calls'[waitResolve] = Item(pushLog'[Len(pushLog')].item)
          /\ queue' = queue
          /\ waitResolve' = 0]_vars

C5_Witness == lastOp = "push-wake" /\ queue = <<>>

\* C6: close() resolves the suspended consumer with null, no consumer is
\* suspended on a closed queue, and a for-await loop over a closed queue ends.
C6_CloseEndsIteration ==
  /\ [](closed => ~Suspended)
  /\ [][(~closed /\ closed' /\ waitResolve # 0) =>
          calls'[waitResolve] = Null]_vars
  /\ ((closed /\ itpc # "idle") ~> (itpc = "done"))

C6_Witness == lastOp = "close-wake" /\ itpc = "done"


(***************************************************************************)
(* Claims about the store                                                  *)
(***************************************************************************)

\* The last value saved under id, Undefined when there is none.
RECURSIVE LastSaved(_, _)
LastSaved(log, id) ==
  IF log = <<>> THEN Undefined
  ELSE IF log[Len(log)].id = id THEN log[Len(log)]
  ELSE LastSaved(SubSeq(log, 1, Len(log) - 1), id)

\* C9: save is an upsert keyed by the task id, last write wins: the store
\* holds one entry per saved id, get returns the last value saved under the
\* id and undefined for an id never saved, and a second save of the same
\* value leaves the store as the first left it.
C9_SaveIdempotentUpsert ==
  /\ \A i, j \in 1..Len(tasks) : tasks[i].k = tasks[j].k => i = j
  /\ \A id \in TaskIds : get(id) = LastSaved(saves, id)
  /\ got.id # Absent => got.v = LastSaved(SubSeq(saves, 1, got.at), got.id)
  /\ \A t \in StoreTasks :
       /\ saved(saved(tasks, t), t) = saved(tasks, t)
       /\ MapGet(saved(tasks, t), t.id) = t
       /\ \A u \in StoreTasks :
            u.id = t.id => MapGet(saved(saved(tasks, t), u), t.id) = u

C9_Witness ==
  /\ Len(saves) = 3
  /\ saves[1] = saves[2]
  /\ saves[3].id = saves[1].id
  /\ saves[3] # saves[1]
  /\ got.id \in TaskIds
  /\ got.v = Undefined

(***************************************************************************)
(* Claims about the request handler                                        *)
(***************************************************************************)

\* The code of TaskNotFoundError in section 8.2 of the protocol documentation.
DocTaskNotFoundCode == -32001

\* The id of the task an object describes, whichever field carries it.
TaskIdOf(p) == IF p.id # Absent THEN p.id ELSE p.taskId

\* C7: right after a non-streaming send has returned a Task, tasks/get for
\* that task's id returns a Task, not an error, in the state the send returned.
C7_GetAfterSend ==
  (resp.op = "send" /\ quiet /\ resp.body.result.kind = "task") =>
    \A rid \in ReqIds :
      LET g == onGetTask(Request(rid, TaskIdOf(resp.body.result)))
      IN  /\ g.error = NoError
          /\ g.result.kind = "task"
          /\ g.result.state = resp.body.result.state

\* C8: tasks/get for an id the store does not hold returns an error response
\* with the request's id, no result, and TaskNotFoundError with code -32001.
C8_GetUnknownTask ==
  (resp.op = "get" /\ quiet /\ ~MapHas(tasks, resp.req.taskId)) =>
    /\ resp.body.id = resp.req.id
    /\ resp.body.result = NoPayload
    /\ resp.body.error.type = "TaskNotFoundError"
    /\ resp.body.error.code = DocTaskNotFoundCode

(***************************************************************************)
(* Claims about a streaming cycle                                          *)
(***************************************************************************)

\* The responses written to the HTTP response as data frames, in order.
DataEvents ==
  [i \in 1..Len(SelectSeq(frames, LAMBDA f : f.t = "data")) |->
     SelectSeq(frames, LAMBDA f : f.t = "data")[i].env]

IsFinalStatus(response) ==
  response.result.kind = "status" /\ response.result.final

\* The snapshots carried by the persistable responses of seq, in order.
PersistedOf(seq) ==
  [i \in 1..Len(SelectSeq(seq, Persistable)) |->
     SelectSeq(seq, Persistable)[i].result]

IsPrefix(a, b) == Len(a) <= Len(b) /\ \A i \in 1..Len(a) : a[i] = b[i]

\* C1: no event is forwarded after a status event with final = true, and a
\* cycle whose executor stream has ended has forwarded exactly one such event.
C1_ExactlyOneFinalLast ==
  /\ \A i \in 1..Len(DataEvents) :
       IsFinalStatus(DataEvents[i]) => i = Len(DataEvents)
  /\ (spc = "done" /\ sexec = "returned") =>
       \E i \in 1..Len(DataEvents) : IsFinalStatus(DataEvents[i])

\* C2: when the executor's stream of a streaming send ends without a final
\* status event, the handler adds one status event, completed and final, as
\* the last event of the stream.
C2_SynthesizedFinal ==
  (/\ spc = "done"
   /\ skind = "send"
   /\ sexec = "returned"
   /\ \A i \in 1..Len(taken) : ~IsFinalStatus(taken[i])) =>
    /\ Len(DataEvents) = Len(taken) + 1
    /\ IsFinalStatus(DataEvents[Len(DataEvents)])
    /\ DataEvents[Len(DataEvents)].result.state = "completed"

\* C10 as claimed, of every streaming cycle: each response that carries a
\* snapshot is saved, its save resolved before it is forwarded and before the
\* next response is taken, one save at a time and in event order.
C10_SaveInEveryCycle ==
  /\ Len(inflight) <= 1
  /\ cycSaved \o inflight = PersistedOf(taken)
  /\ IsPrefix(PersistedOf(handlerOut), cycSaved)
  /\ spc = "pull" => inflight = <<>>

\* C10: in a cycle opened by message/sendStream the saves are made one at a
\* time and in event order, a response that carries a snapshot is forwarded
\* only after its save has resolved, and no response is taken from the
\* executor while a save is pending; a cycle opened by tasks/resubscribe
\* saves nothing.
C10_SaveBeforeForward ==
  /\ Len(inflight) <= 1
  /\ cycSaved \o inflight = IF skind = "send" THEN PersistedOf(taken) ELSE <<>>
  /\ skind = "send" => IsPrefix(PersistedOf(handlerOut), cycSaved)
  /\ spc = "pull" => inflight = <<>>

C10_Witness ==
  /\ spc = "done"
  /\ skind = "send"
  /\ Len(cycSaved) = 2
  /\ Len(PersistedOf(handlerOut)) = 2
  /\ cycSaved[1] # cycSaved[2]

\* C11: when the executor's stream throws during a streaming send, after the
\* k events it has yielded have been forwarded, the error does not leave the
\* handler: the stream is those k events, then one error response with code
\* -32603 and the request's id, then the end of the stream, and nothing else.
C11_ErrorEnvelopeOnThrow ==
  (skind = "send" /\ sexec = "threw") =>
    /\ spc \in {"yield-last", "end", "done"}
    /\ httpBody.error = NoError
    /\ spc = "yield-last" => (DataEvents = taken /\ ~resEnded)
    /\ spc \in {"end", "done"} =>
         /\ Len(DataEvents) = Len(taken) + 1
         /\ SubSeq(DataEvents, 1, Len(taken)) = taken
         /\ DataEvents[Len(DataEvents)].id = sreq.id
         /\ DataEvents[Len(DataEvents)].result = NoPayload
         /\ DataEvents[Len(DataEvents)].error.code = -32603
    /\ spc = "done" =>
         /\ resEnded
         /\ frames = [i \in 1..Len(DataEvents) |-> DataFrame(DataEvents[i])]
                       \o <<EndFrame>>

C11_Witness ==
  /\ skind = "send"
  /\ sexec = "threw"
  /\ spc = "done"
  /\ Len(taken) = 2
  /\ Len(frames) = 4

\* C12: on both streaming endpoints, a fault of the handler or the executor
\* raised after the first frame has been written reaches the client as a data
\* frame that carries an error, and the HTTP response is ended.
C12_FaultFramedAndEnded ==
  (sexec = "threw" /\ frames # <<>> /\ spc \in {"failed", "done"}) =>
    /\ resEnded
    /\ DataEvents # <<>>
    /\ DataEvents[Len(DataEvents)].error # NoError

(***************************************************************************)
(* Claims about tasks/cancel, tasks/get and the executor's answers         *)
(***************************************************************************)

\* The step that receives a non-streaming request of operation op.
Receives(op) == nops' = nops + 1 /\ recv'.op = op

\* The step in which the executor answers the pending operation op, and the
\* handler returns a response that is not handleError's.
Answers(op) ==
  /\ opc = op
  /\ opc' = "idle"
  /\ resp'.body.error.type # "InternalError"

\* C16: a tasks/cancel for an id the store does not hold is answered with a
\* TaskNotFoundError error response that carries the request's id, without a
\* call of the executor and without a change of the store; the executor's
\* onCancel is called only for an id the store holds.
C16_CancelUnknownTask ==
  [][Receives("cancel") =>
       IF MapHas(tasks, recv'.req.taskId)
         THEN opc' = "cancel" /\ oreq' = recv'.req
         ELSE /\ resp'.op = "cancel"
              /\ resp'.req = recv'.req
              /\ resp'.body.id = recv'.req.id
              /\ resp'.body.result = NoPayload
              /\ resp'.body.error.type = "TaskNotFoundError"
              /\ opc' = "idle"
              /\ oreq' = NoRequest
              /\ tasks' = tasks]_vars

C16_Witness ==
  /\ recv.op = "cancel"
  /\ resp.op = "cancel"
  /\ resp.body.error.type = "TaskNotFoundError"
  /\ opc = "idle"
  /\ tasks # <<>>
  /\ ~MapHas(tasks, recv.req.taskId)

\* C17: a tasks/cancel on a task stored as completed is answered with
\* TaskNotCancelableError and leaves the stored Task as it was.
C17_CancelCompletedTask ==
  [][(Answers("cancel") /\ get(oreq.taskId).state = "completed") =>
       /\ resp'.body.error.type = "TaskNotCancelableError"
       /\ tasks' = tasks]_vars

\* C18: the response of a tasks/cancel or of a non-streaming send is the
\* executor's, and the store is written exactly when that response carries a
\* result (for a send: a result that is a Task).
C18_PassThroughAndSave ==
  [][(Answers("cancel") \/ Answers("send")) =>
       /\ resp'.body.id = oreq.id
       /\ IF \/ (opc = "cancel" /\ HasResult(resp'.body))
             \/ (opc = "send" /\ resp'.body.result.kind = "task")
            THEN /\ resp'.body.error = NoError
                 /\ tasks' = saved(tasks, resp'.body.result)
            ELSE tasks' = tasks]_vars

\* C19: tasks/get reads the store and nothing else: it leaves the store as
\* it is, calls no entry point of the executor, and for an id the store
\* holds its result is the stored Task itself.
C19_GetIsPureRead ==
  [][Receives("get") =>
       /\ tasks' = tasks
       /\ opc' = opc
       /\ oreq' = oreq
       /\ resp'.op = "get"
       /\ resp'.req = recv'.req
       /\ resp'.body.id = recv'.req.id
       /\ IF MapHas(tasks, recv'.req.taskId)
            THEN /\ resp'.body.error = NoError
                 /\ resp'.body.result = MapGet(tasks, recv'.req.taskId)
            ELSE resp'.body.result = NoPayload]_vars

C19_Witness ==
  /\ recv.op = "get"
  /\ resp.op = "get"
  /\ quiet
  /\ resp.body.result.kind = "task"
  /\ resp.body.result.state = "completed"
  /\ resp.body.result = get(resp.req.taskId)

(***************************************************************************)
(* Claims about tasks/resubscribe                                          *)
(***************************************************************************)

\* The responses the handler's generator has produced so far: those handed
\* to the SSE loop and the one it is about to yield.
Produced ==
  IF spc \in {"yield", "yield-last"} THEN Append(handlerOut, scur) ELSE handlerOut

\* C20: the events of a tasks/resubscribe stream are a single
\* TaskNotFoundError error response with the request's id when the store
\* does not hold the id, the executor's onResubscribe being then not called,
\* and otherwise the executor's events, in order and nothing else.
C20_ResubscribeEvents ==
  skind = "resub" =>
    /\ IF MapHas(tasks, sreq.taskId)
         THEN /\ sexec # "none"
              /\ Produced = taken
         ELSE /\ sexec = "none"
              /\ taken = <<>>
              /\ Len(Produced) = 1
              /\ Produced[1].id = sreq.id
              /\ Produced[1].result = NoPayload
              /\ Produced[1].error.type = "TaskNotFoundError"
    /\ DataEvents = handlerOut
    /\ spc = "done" => frames[Len(frames)] = EndFrame

C20_Witness ==
  /\ skind = "resub"
  /\ spc = "done"
  /\ Len(taken) = 2
  /\ DataEvents = taken
  /\ MapGet(tasks, sreq.taskId).state = "completed"

(***************************************************************************)
(* Claims about the client's decoder                                       *)
(***************************************************************************)

\* The envelopes of the data frames of fs whose payload is JSON, in order.
EnvelopesOf(fs) ==
  [i \in 1..Len(SelectSeq(fs, LAMBDA f : f.t = "data")) |->
     SelectSeq(fs, LAMBDA f : f.t = "data")[i].env]

\* The number of frames of fs that are whole in the first n characters of
\* the body.
RECURSIVE WholeFrames(_, _)
WholeFrames(fs, n) ==
  IF fs = <<>> \/ Len(FrameText(Head(fs))) > n THEN 0
  ELSE 1 + WholeFrames(Tail(fs), n - Len(FrameText(Head(fs))))

NumRead == Len(BodyText(sent)) - Len(wire)

\* C13: the data frames of a sequence of envelopes, read by the client in
\* chunks cut anywhere, give the caller those envelopes, equal and in order:
\* at any time the envelopes of the frames read whole, and all of them once
\* the body has ended.
C13_RoundTrip ==
  (\A i \in 1..Len(sent) : sent[i].t = "data") =>
    /\ delivered = EnvelopesOf(SubSeq(sent, 1, WholeFrames(sent, NumRead)))
    /\ dpc # "returned"
    /\ dpc = "done" => delivered = [i \in 1..Len(sent) |-> sent[i].env]

C13_Witness ==
  /\ dpc = "done"
  /\ Len(sent) = 3
  /\ \A i \in 1..3 : sent[i].t = "data"
  /\ sent[1] # sent[2]
  /\ cutInDelimiter
  /\ Len(delivered) = 3

\* The frames of fs before its first end sentinel.
RECURSIVE BeforeEnd(_)
BeforeEnd(fs) ==
  IF fs = <<>> \/ Head(fs).t = "end" THEN <<>>
  ELSE <<Head(fs)>> \o BeforeEnd(Tail(fs))

\* C14: the end sentinel ends the decoding: its payload {} is never given
\* to the caller, and nothing is given for a frame that follows it.
C14_EndSentinelStops ==
  /\ \A i \in 1..Len(delivered) : delivered[i] # EmptyObject
  /\ IsPrefix(delivered, EnvelopesOf(BeforeEnd(sent)))

\* C15: a data frame whose payload is not JSON is skipped and the decoding
\* goes on: the caller is given the envelopes of the well-formed frames
\* before and after it, in order, and the loop runs to the end of the body.
C15_BadFrameSkipped ==
  /\ IsPrefix(delivered, EnvelopesOf(sent))
  /\ delivered = EnvelopesOf(SubSeq(sent, 1, WholeFrames(sent, NumRead)))
  /\ dpc # "returned"
  /\ dpc = "done" => delivered = EnvelopesOf(sent)

C15_Witness ==
  /\ dpc = "done"
  /\ Len(sent) = 3
  /\ sent[1].t = "data"
  /\ sent[2].t = "bad"
  /\ sent[3].t = "data"
  /\ delivered = <<sent[1].env, sent[3].env>>


(***************************************************************************)
(* The POST route: routing, push notification configuration, envelopes     *)
(***************************************************************************)
DocOperationNotSupportedCode == -32004

\* The step in which the POST route hands a body to an operation, or to its
\* default case.
Routed == nops' = nops + 1 \/ (spc = "idle" /\ spc' # "idle")

\* C21: tasks/pushNotificationConfig/set and /get are always answered with an
\* error response whose error is OperationNotSupportedError (code -32004) and
\* whose id is the request's; they change nothing in the store and call no
\* executor operation.
C21_PushNotificationUnsupported ==
  [][Receives("pushSet") \/ Receives("pushGet") =>
       /\ resp'.req = recv'.req
       /\ resp'.body.id = recv'.req.id
       /\ resp'.body.result = NoPayload
       /\ resp'.body.error = [type |-> "OperationNotSupportedError",
                              code |-> DocOperationNotSupportedCode]
       /\ tasks' = tasks
       /\ opc' = opc
       /\ oreq' = oreq]_vars

\* C22: every method name of the surface is routed to its operation,
\* tasks/send as message/send and tasks/sendSubscribe as message/sendStream;
\* only a name outside the surface is answered with Method not found (-32601).
C22_SurfaceRouted ==
  [][Routed =>
       /\ posted'.method \in {"tasks/send", "message/send"}
            => route(posted'.method) = "send" /\ recv'.op = "send"
       /\ posted'.method \in {"tasks/sendSubscribe", "message/sendStream"}
            => route(posted'.method) = "sendStream" /\ skind' = "send"
       /\ posted'.method = "tasks/get" => recv'.op = "get"
       /\ posted'.method = "tasks/cancel" => recv'.op = "cancel"
       /\ posted'.method = "tasks/resubscribe" => skind' = "resub"
       /\ posted'.method = "tasks/pushNotificationConfig/set"
            => recv'.op = "pushSet"
       /\ posted'.method = "tasks/pushNotificationConfig/get"
            => recv'.op = "pushGet"
       /\ (resp' # resp /\ resp'.body.error.code = MethodNotFoundCode)
            => posted'.method = "tasks/unknown"]_vars

\* C28: a request whose jsonrpc member is missing or is not "2.0" is answered
\* with a standard JSON-RPC error and reaches no operation of the dispatcher
\* and no executor.
C28_EnvelopeValidated ==
  [][(Routed /\ posted'.jsonrpc # "2.0") =>
       /\ resp' # resp
       /\ resp'.body.result = NoPayload
       /\ resp'.body.error.code \in -32700 .. -32600
       /\ recv'.op = "notFound"
       /\ opc' = opc
       /\ sexec' = sexec
       /\ tasks' = tasks]_vars


(***************************************************************************)
(* Sends that reference a stored task                                      *)
(***************************************************************************)

\* The states of a task that ended.
TerminalStates == {"completed", "canceled", "failed"}

\* The step in which a message/sendStream is handed to the handler.
ReceivesStream == spc = "idle" /\ skind' = "send"

C25_StreamEnvelopeIds ==
  \A i \in 1..Len(DataEvents) : DataEvents[i].id = sreq.id

\* The body the SSE loop of the server writes for a stream it ends itself:
\* data frames, then the end sentinel, once and last.
ServerBody(fs) ==
  /\ fs # <<>>
  /\ fs[Len(fs)].t = "end"
  /\ \A i \in 1..(Len(fs) - 1) : fs[i].t = "data"

\* C26: the server writes one data frame per envelope the handler yields, in
\* order, and once the handler's sequence has ended the end sentinel, once and
\* last, and ends the response; a client that reads such a body is given as
\* many chunks as it has data frames, those envelopes in that order.
C26_OneFramePerEnvelope ==
  /\ httpBody = Envelope(Absent, NoPayload, NoError) =>
       /\ IsPrefix(handlerOut, DataEvents)
       /\ Len(DataEvents) = Len(handlerOut)
       /\ \A i \in 1..Len(frames) : frames[i].t = "end" => i = Len(frames)
       /\ spc = "done" => (ServerBody(frames) /\ resEnded)
  /\ (ServerBody(sent) /\ dpc \in {"done", "returned"}) =>
       delivered = EnvelopesOf(sent)


(***************************************************************************)
(* Claims about the events of a streamed scenario                          *)
(***************************************************************************)

\* The status events among the chunks a caller has collected.
IsStatusEvent(event) == event.type = "taskStatusUpdate"
statusEvents(collected) == SelectSeq(collected, IsStatusEvent)

\* C23: in the events of an artifact slot at most one does not append, and
\* it is the first, every later one appends; an event marked as the last
\* chunk has no successor, and once the stream has ended exactly one event,
\* the last, is marked so.
C23_ArtifactSlotFlags ==
  LET events == artifactEvents(streamingChunks) IN
    /\ \A i \in 1..Len(events) :
         /\ events[i].index = 0
         /\ events[i].append = (i # 1)
         /\ events[i].lastChunk => i = Len(events)
    /\ (apc = "done" /\ events # <<>>) => events[Len(events)].lastChunk

C23_Witness ==
  /\ apc = "done"
  /\ Len(artifactEvents(streamingChunks)) >= 3
  /\ artifactEvents(streamingChunks)[3].append
  /\ artifactEvents(streamingChunks)[3].lastChunk

\* C24: the text assembled from the events of an artifact slot, in order, an
\* event that does not append replacing it and one that appends being
\* concatenated, is the full content of the artifact, for a content sent as one
\* event and for one split over several.
C24_AssembledIsContent ==
  (apc = "done" /\ acfg.artifactContent # <<>>) =>
    fullArtifactContent = acfg.artifactContent

C35_DeliveredPrefixOfAccepted == IsPrefix(DeliveredSeq, AcceptedSeq)

C35_Witness ==
  /\ Len(DeliveredSeq) = 2
  /\ DeliveredSeq[1] # DeliveredSeq[2]
  /\ \E i \in 1..Len(pushLog) : ~pushLog[i].ret
  /\ \E i \in 1..Len(calls) : calls[i] = Pending

\* The calls of next() whose promise is pending.
PendingCalls == {i \in 1..Len(calls) : calls[i] = Pending}

\* C36: no caller of next() stays suspended once the queue is closed, a
\* next() issued while an earlier one is suspended included, and a push that
\* wakes a caller wakes the one that has waited longest.
C36_NoCallerStranded ==
  /\ [](closed => PendingCalls = {})
  /\ [][(Len(pushLog') = Len(pushLog) + 1 /\ PendingCalls # {} /\ ~closed) =>
          \A i \in PendingCalls :
            (\A j \in PendingCalls : i <= j) => calls'[i] # Pending]_vars


(***************************************************************************)
(* Claims about the partial frame in the decoder's buffer                  *)
(***************************************************************************)

\* The characters of the body the decoder has read after the last frame it
\* has read whole.
PartialFrame ==
  SubSeq(BodyText(sent),
         Len(BodyText(SubSeq(sent, 1, WholeFrames(sent, NumRead)))) + 1,
         NumRead)

\* C39: what the caller has been given is the envelopes of the frames read
\* up to their blank line, each once and in order; the characters read after
\* the last of them are in the buffer, given to no one, and are still there,
\* unparsed, when the body ends before the blank line of their frame.
C39_PartialFrameBuffered ==
  /\ delivered = EnvelopesOf(SubSeq(sent, 1, WholeFrames(sent, NumRead)))
  /\ dpc = "reading" => buffer = PartialFrame
  /\ [][dpc' = "done" => delivered' = delivered]_vars

C39_Witness ==
  /\ dpc = "done"
  /\ Len(sent) = 2
  /\ sent[2].t = "data"
  /\ Len(delivered) = 1
  /\ buffer = SubSeq(FrameText(sent[2]), 1, Len(FrameText(sent[2])) - 1)


(***************************************************************************)
(* Claims about a send the executor answers with an error                  *)
(***************************************************************************)

\* C37: when the executor has answered a message/send on a stored task with
\* an error response, or has thrown, the stored Task is as it was before the
\* send, history included.
C37_FailedSendLeavesTask ==
  (/\ resp.op = "send"
   /\ opc = "idle"
   /\ recv = [op |-> "send", req |-> resp.req]
   /\ resp.body.error # NoError
   /\ resp.req.taskId # Absent
   /\ MapHas(before, resp.req.taskId))
    => get(resp.req.taskId) = MapGet(before, resp.req.taskId)


(***************************************************************************)
(* Claims about requests that meet a streaming cycle in flight             *)
(***************************************************************************)

\* The arguments of the saves of a step: the result of the response a
\* message/send or a tasks/cancel returns, the result of the response the
\* executor's stream has just yielded.
SavedNow ==
  (IF \/ opc = "send" /\ opc' = "idle" /\ Persistable(resp'.body)
      \/ opc = "cancel" /\ opc' = "idle" /\ HasResult(resp'.body)
     THEN {resp'.body.result} ELSE {})
  \cup
  (IF skind = "send" /\ Len(taken') = Len(taken) + 1 /\ Persistable(scur')
     THEN {scur'.result} ELSE {})

\* C31: whatever the interleaving of a message/send and a streaming cycle
\* that save snapshots of one task, every save is carried out when it is
\* called and replaces the stored entry by its argument, whole; the entry
\* changes otherwise only by the message a send appends to it; and tasks/get
\* answers with the entry, that is the argument of the save executed last.
C31_LastSaveWins ==
  /\ [][/\ \A x \in SavedNow : MapGet(tasks', x.id) = x
        /\ \A tid \in TaskIds \cup {Absent} :
             MapGet(tasks', tid) # MapGet(tasks, tid) =>
               \/ \E x \in SavedNow : x.id = tid
               \/ /\ Receives("send") \/ ReceivesStream
                  /\ tasks' = appended(tasks, IF ReceivesStream THEN sreq' ELSE recv'.req)]_vars
  /\ [](\A tid \in TaskIds :
          MapHas(tasks, tid) =>
            onGetTask(Request("r2", tid)).result = MapGet(tasks, tid))

C31_Witness ==
  /\ spc = "pull"
  /\ Len(taken) = 1
  /\ cycSaved # <<>>
  /\ opc = "idle"
  /\ resp.op = "send"
  /\ Persistable(resp.body)
  /\ get("t1") = resp.body.result
  /\ get("t1") # cycSaved[1]

C33_DisconnectStopsStream ==
  socket.closed =>
    /\ Len(frames) = socket.frames
    /\ Len(taken) <= socket.taken + 1
    /\ \A i \in 1..Len(socket.stored) : MapHas(tasks, socket.stored[i].k)

\* C38: the Task a tasks/cancel has saved is what tasks/get answers with for
\* as long as no other send or cancel is received for that task, a streaming
\* cycle that was in flight when the cancel arrived notwithstanding.
C38_CanceledTaskStays ==
  (/\ resp.op = "cancel"
   /\ opc = "idle"
   /\ recv = [op |-> "cancel", req |-> resp.req]
   /\ HasResult(resp.body))
    => onGetTask(Request("r1", resp.req.taskId)).result = resp.body.result


(***************************************************************************)
(* Claims about the turns of a scenario                                    *)
(***************************************************************************)

\* The turn that follows turn i for the same task id.
NextTurn(i, j) ==
  /\ i < j
  /\ replies[j].taskId = replies[i].taskId
  /\ \A k \in (i + 1)..(j - 1) : replies[k].taskId # replies[i].taskId

\* The send that follows one answered with input-required, for the same
\* task id, is answered with a completed Task of that id.
FollowUpCompletes ==
  \A i, j \in 1..Len(replies) :
    (NextTurn(i, j) /\ ~replies[i].threw
       /\ replies[i].task.state = "input-required") =>
      /\ ~replies[j].threw
      /\ replies[j].task.state = "completed"
      /\ replies[j].task.id = replies[i].task.id

\* C34, as stated: with the executor configured for input-required, the
\* first send on a fresh task id is answered with input-required, and the
\* send that follows it on that id with completed and the same task id.
C34_AsStated ==
  /\ \A i \in 1..Len(replies) :
       (acfg.inputRequired /\ replies[i].fresh) =>
         /\ ~replies[i].threw
         /\ replies[i].task.state = "input-required"
         /\ replies[i].task.id = replies[i].taskId
  /\ FollowUpCompletes

\* C34, amended: the first send on a fresh task id is answered with
\* input-required when its text passes none of the other tests of the agent;
\* whatever its text, the send that follows it on that id is answered with
\* completed and the same task id.
C34_InputRequiredTurns ==
  /\ \A i \in 1..Len(replies) :
       (acfg.inputRequired /\ replies[i].fresh /\ replies[i].message = "other") =>
         /\ ~replies[i].threw
         /\ replies[i].task.state = "input-required"
         /\ replies[i].task.id = replies[i].taskId
  /\ FollowUpCompletes

C34_Witness ==
  /\ acfg.inputRequired
  /\ Len(replies) = 2
  /\ replies[1].fresh
  /\ replies[1].task.state = "input-required"
  /\ replies[2].taskId = replies[1].taskId
  /\ replies[2].message = "other"
  /\ replies[2].task.state = "completed"

=============================================================================
